---- MODULE Spec2Model ----
(***************************************************************************)
(* State-machine model of the multi-tenant analytics gateway:              *)
(*   - the tenant registry            (config/clients.js)                  *)
(*   - the per-tenant connection pool (services/databaseManager.js)        *)
(*   - the tenant resolution middleware (middleware/clientAuth.js)         *)
(*   - the route table of the gateway (app.js)                             *)
(* JavaScript runs one task at a time: every action below is the code that *)
(* runs between two suspension points (an await or the end of a handler).  *)
(***************************************************************************)
EXTENDS Integers, Sequences, FiniteSets, TLC

(***************************************************************************)
(* Bounds                                                                  *)
(***************************************************************************)
MaxCalls == 3        \* getConnection calls issued in one behaviour
MaxHandles == 3      \* Sequelize instances constructed in one behaviour
MaxCloseRuns == 2    \* closeAll runs in one behaviour

Procs == 1..MaxCalls
Handles == 1..MaxHandles

(***************************************************************************)
(* JavaScript values used as tenant ids                                    *)
(***************************************************************************)
Undefined == "<undefined>"
JsTrue == "<true>"
JsFalse == "<false>"
NoHandle == 0

\* truthiness of the JavaScript values that occur here: strings, booleans, undefined
Truthy(v) == v \notin {Undefined, JsFalse, ""}

\* a || b
Or(a, b) == IF Truthy(a) THEN a ELSE b

(***************************************************************************)
(* Tenant registry                                                         *)
(***************************************************************************)
\* own keys of the `clients` object literal
clients == {"maple", "client2"}

\* properties every object literal inherits from Object.prototype
ObjectPrototypeKeys == {"constructor"}

\* clients[clientId]: "own" descriptor, inherited member, or undefined
ClientsLookup(clientId) ==
    IF clientId \in clients THEN "descriptor"
    ELSE IF clientId \in ObjectPrototypeKeys THEN "inherited"
    ELSE Undefined

\* getClient: TRUE when it returns, FALSE when it throws `Unknown client`
getClient(clientId) == ClientsLookup(clientId) # Undefined

\* isValidClient returns clientId && clients.hasOwnProperty(clientId)
isValidClient(clientId) ==
    IF Truthy(clientId)
    THEN (IF clientId \in clients THEN JsTrue ELSE JsFalse)
    ELSE clientId

(***************************************************************************)
(* Connection pool state                                                   *)
(***************************************************************************)
VARIABLES
    connections,   \* Map clientId -> Sequelize, as its insertion-ordered entry list
    models,        \* Map clientId -> models, as a function key -> handle they are defined on
    hstate,        \* per Sequelize instance: lifecycle state
    htenant,       \* per Sequelize instance: the tenant whose dbUrl it was built with
    nextHandle,    \* identity of the next Sequelize instance to be constructed
    pc,            \* per getConnection call: position
    arg,           \* per getConnection call: clientId argument
    sequelize,     \* per getConnection call: the local `sequelize`
    ret,           \* per getConnection call: value the promise resolved with
    err,           \* per getConnection call: error the promise rejected with
    closePc,       \* closeAll: position
    closePos,      \* closeAll: index of the Map iterator
    closeCur,      \* closeAll: the `connection` whose close() is awaited
    closeErr,      \* closeAll: TRUE when the returned promise rejected
    closeRuns,     \* number of closeAll runs started
    \* observers (not read by any guard of the program)
    epoch,         \* number of closeAll runs completed
    closedIn,      \* per handle: the closeAll run that invoked close() on it, 0 if none
    startEpoch,    \* per call: epoch when the call was issued
    hitCache,      \* per call: TRUE when connections.has(clientId) held at the call
    concurrentWith,\* per call: calls for the same tenant in flight when it was issued
    startKeys,     \* closeAll: keys cached when the current run started
    attempted,     \* closeAll: handles close() was invoked on in the current run
    closeFails     \* closeAll: number of close() rejections in the current run

poolVars == <<connections, models, hstate, htenant, nextHandle, pc, arg, sequelize,
              ret, err, closePc, closePos, closeCur, closeErr, closeRuns, epoch,
              closedIn, startEpoch, hitCache, concurrentWith, startKeys, attempted,
              closeFails>>

(***************************************************************************)
(* Map operations on the entry list                                        *)
(***************************************************************************)
MapKeys(m) == {m[i].key : i \in 1..Len(m)}
MapValues(m) == {m[i].value : i \in 1..Len(m)}
MapHas(m, k) == k \in MapKeys(m)
MapGet(m, k) ==
    IF MapHas(m, k) THEN (CHOOSE e \in {m[i] : i \in 1..Len(m)} : e.key = k).value
    ELSE NoHandle
\* Map.prototype.set: an existing key keeps its position, a new key is appended
MapSet(m, k, v) ==
    IF MapHas(m, k)
    THEN [i \in 1..Len(m) |-> IF m[i].key = k THEN [key |-> k, value |-> v] ELSE m[i]]
    ELSE Append(m, [key |-> k, value |-> v])

\* arguments getConnection is called with through the module's interface
CallArgs == clients \cup {"ghost"}

\* the pool after construction, with P call records and H instance records
PoolInitOver(P, H) ==
    /\ connections = << >>
    /\ models = << >>
    /\ hstate = [h \in H |-> "none"]
    /\ htenant = [h \in H |-> Undefined]
    /\ nextHandle = 1
    /\ pc = [p \in P |-> "idle"]
    /\ arg = [p \in P |-> Undefined]
    /\ sequelize = [p \in P |-> NoHandle]
    /\ ret = [p \in P |-> NoHandle]
    /\ err = [p \in P |-> "none"]
    /\ closePc = "idle"
    /\ closePos = 0
    /\ closeCur = NoHandle
    /\ closeErr = FALSE
    /\ closeRuns = 0
    /\ epoch = 0
    /\ closedIn = [h \in H |-> 0]
    /\ startEpoch = [p \in P |-> 0]
    /\ hitCache = [p \in P |-> FALSE]
    /\ concurrentWith = [p \in P |-> {}]
    /\ startKeys = {}
    /\ attempted = {}
    /\ closeFails = 0

PoolInit == PoolInitOver(Procs, Handles)

closeVars == <<closePc, closePos, closeCur, closeErr, closeRuns, epoch, closedIn,
               startKeys, attempted, closeFails>>

\* a call is issued: it takes the first unused call record
Issue(p, clientId) ==
    /\ pc[p] = "idle"
    /\ \A q \in 1..(p - 1) : pc[q] # "idle"
    /\ arg' = [arg EXCEPT ![p] = clientId]
    /\ startEpoch' = [startEpoch EXCEPT ![p] = epoch]
    /\ hitCache' = [hitCache EXCEPT ![p] = MapHas(connections, clientId)]
    /\ concurrentWith' = [concurrentWith EXCEPT ![p] =
           {q \in DOMAIN pc : pc[q] = "authenticate" /\ arg[q] = clientId}]

(***************************************************************************)
(* getConnection(clientId)                                                 *)
(***************************************************************************)
\* getConnection(clientId) up to its first suspension point: a cached handle is
\* returned; otherwise getClient may throw, else a Sequelize instance is
\* constructed and authenticate() is awaited
getConnection(p, clientId) ==
    /\ Issue(p, clientId)
    /\ IF MapHas(connections, clientId)
       THEN /\ ret' = [ret EXCEPT ![p] = MapGet(connections, clientId)]
            /\ pc' = [pc EXCEPT ![p] = "returned"]
            /\ UNCHANGED <<hstate, htenant, nextHandle, sequelize, err>>
       ELSE IF ~getClient(clientId)
       THEN /\ err' = [err EXCEPT ![p] = "UnknownClient"]
            /\ pc' = [pc EXCEPT ![p] = "rejected"]
            /\ UNCHANGED <<hstate, htenant, nextHandle, sequelize, ret>>
       ELSE /\ nextHandle \in DOMAIN hstate
            /\ hstate' = [hstate EXCEPT ![nextHandle] = "constructed"]
            /\ htenant' = [htenant EXCEPT ![nextHandle] = clientId]
            /\ sequelize' = [sequelize EXCEPT ![p] = nextHandle]
            /\ nextHandle' = nextHandle + 1
            /\ pc' = [pc EXCEPT ![p] = "authenticate"]
            /\ UNCHANGED <<ret, err>>
    /\ UNCHANGED <<connections, models>>
    /\ UNCHANGED closeVars

\* a plausible slip: the models are defined but never stored in the map
initializeModelsUnstored(m, clientId, h) == m

\* initializeModels(clientId, sequelize): this.models.set(clientId, models)
initializeModels(m, clientId, h) ==
    [k \in DOMAIN m \cup {clientId} |-> IF k = clientId THEN h ELSE m[k]]

\* authenticate() resolved: connections.set, initializeModels, return connections.get
AuthenticateOk(p) ==
    /\ pc[p] = "authenticate"
    /\ hstate' = [hstate EXCEPT ![sequelize[p]] = "authenticated"]
    /\ connections' = MapSet(connections, arg[p], sequelize[p])
    /\ models' = initializeModels(models, arg[p], sequelize[p])
    /\ ret' = [ret EXCEPT ![p] = MapGet(connections', arg[p])]
    /\ pc' = [pc EXCEPT ![p] = "returned"]
    /\ UNCHANGED <<htenant, nextHandle, arg, sequelize, err, startEpoch, hitCache,
                   concurrentWith>>
    /\ UNCHANGED closeVars

\* a plausible slip: the handle is cached before the liveness check is known to pass
AuthenticateFailsCaching(p) ==
    /\ pc[p] = "authenticate"
    /\ hstate' = [hstate EXCEPT ![sequelize[p]] = "authFailed"]
    /\ connections' = MapSet(connections, arg[p], sequelize[p])
    /\ err' = [err EXCEPT ![p] = "ConnectionError"]
    /\ pc' = [pc EXCEPT ![p] = "rejected"]
    /\ UNCHANGED <<models, htenant, nextHandle, arg, sequelize, ret, startEpoch,
                   hitCache, concurrentWith>>
    /\ UNCHANGED closeVars

\* authenticate() rejected: the catch block logs and rethrows
AuthenticateFails(p) ==
    /\ pc[p] = "authenticate"
    /\ hstate' = [hstate EXCEPT ![sequelize[p]] = "authFailed"]
    /\ err' = [err EXCEPT ![p] = "ConnectionError"]
    /\ pc' = [pc EXCEPT ![p] = "rejected"]
    /\ UNCHANGED <<connections, models, htenant, nextHandle, arg, sequelize, ret,
                   startEpoch, hitCache, concurrentWith>>
    /\ UNCHANGED closeVars

callVars == <<pc, arg, sequelize, ret, err, startEpoch, hitCache, concurrentWith>>

(***************************************************************************)
(* closeAll()                                                              *)
(***************************************************************************)
\* a plausible slip: the maps are not cleared after the loop
ClearKeeping(m) == m

\* Map.prototype.clear
Clear(m) == << >>

\* the iterator is exhausted: connections.clear(); models.clear(); resolve
CloseAllFinish ==
    /\ connections' = Clear(connections)
    /\ models' = Clear(models)
    /\ closePc' = "done"
    /\ closeCur' = NoHandle
    /\ epoch' = epoch + 1

\* the iterator yields entry i: connection.close() is invoked and awaited
CloseAllVisit(i, settled, run) ==
    /\ closeCur' = connections[i].value
    /\ closePos' = i
    /\ closePc' = "closing"
    /\ hstate' = [settled EXCEPT ![connections[i].value] = "closing"]
    /\ closedIn' = [closedIn EXCEPT ![connections[i].value] = run]
    /\ attempted' = (IF i = 1 THEN {} ELSE attempted) \cup {connections[i].value}
    /\ UNCHANGED <<connections, models, epoch>>

\* closeAll is called: runs up to the first await, or to the end on an empty Map
closeAll ==
    /\ closePc \in {"idle", "done"}
    /\ closeRuns < MaxCloseRuns
    /\ closeRuns' = closeRuns + 1
    /\ startKeys' = MapKeys(connections)
    /\ closeErr' = FALSE
    /\ closeFails' = 0
    /\ IF Len(connections) = 0
       THEN /\ CloseAllFinish
            /\ closePos' = 0
            /\ attempted' = {}
            /\ UNCHANGED <<hstate, closedIn>>
       ELSE CloseAllVisit(1, hstate, closeRuns + 1)
    /\ UNCHANGED <<htenant, nextHandle>>
    /\ UNCHANGED callVars

\* the loop after one awaited close() settled: next entry of the live iterator, or the end
CloseAllAdvance(settled) ==
    IF closePos < Len(connections)
    THEN CloseAllVisit(closePos + 1, settled, closeRuns)
    ELSE /\ CloseAllFinish
         /\ hstate' = settled
         /\ UNCHANGED <<closePos, closedIn, attempted>>

\* await connection.close() resolved
CloseOk ==
    /\ closePc = "closing"
    /\ CloseAllAdvance([hstate EXCEPT ![closeCur] = "closed"])
    /\ UNCHANGED <<closeErr, closeRuns, startKeys, closeFails, htenant, nextHandle>>
    /\ UNCHANGED callVars

\* a plausible slip: no try/catch around close(), the rejection ends closeAll
CloseFailsAborting ==
    /\ closePc = "closing"
    /\ hstate' = [hstate EXCEPT ![closeCur] = "closeFailed"]
    /\ closePc' = "done"
    /\ closeErr' = TRUE
    /\ closeCur' = NoHandle
    /\ epoch' = epoch + 1
    /\ closeFails' = closeFails + 1
    /\ UNCHANGED <<connections, models, closePos, closedIn, attempted, closeRuns,
                   startKeys, htenant, nextHandle>>
    /\ UNCHANGED callVars

\* await connection.close() rejected: the catch block logs, the loop goes on
CloseFails ==
    /\ closePc = "closing"
    /\ CloseAllAdvance([hstate EXCEPT ![closeCur] = "closeFailed"])
    /\ closeFails' = closeFails + 1
    /\ UNCHANGED <<closeErr, closeRuns, startKeys, htenant, nextHandle>>
    /\ UNCHANGED callVars

(***************************************************************************)
(* Requests                                                                *)
(***************************************************************************)
MaxReqs == 2         \* requests received in one behaviour

VARIABLES
    cur,           \* the request running through its synchronous handler chain
    reqCount,      \* number of requests received
    owner,         \* per getConnection call: the controller method awaiting it
    rstate,        \* per getConnection call: position of that controller method
    resp,          \* per getConnection call: status of the response it sent, 0 if none
    rbody,         \* per getConnection call: body of the response it sent
    qerr,          \* per getConnection call: error the service operation rejected with
    qtries,        \* per getConnection call: executions of connection.query
    env,           \* process.env.NODE_ENV
    ov,            \* the getDashboardOverview call in progress
    lookups        \* results of the registry lookups made so far

auxVars == <<rbody, qerr, qtries, env, ov, lookups>>

httpVars == <<cur, reqCount, owner, rstate, resp, auxVars>>

vars == <<poolVars, httpVars>>

\* values a request can carry in req.params.clientId, req.query.clientId, x-client-id
IdValues == {Undefined, "", "maple", "client2", "ghost", "constructor"}

NoBody == [error |-> Undefined, message |-> Undefined, names |-> Undefined]

\* req.originalUrl as a string of atoms: "/" and a segment for every path segment,
\* then the query string when the request has a clientId query parameter
RECURSIVE PathAtoms(_)
PathAtoms(path) ==
    IF path = << >> THEN << >> ELSE <<"/", Head(path)>> \o PathAtoms(Tail(path))

OriginalUrl(path, query) ==
    PathAtoms(path) \o (IF query = Undefined THEN << >> ELSE <<"?clientId=", query>>)

\* a request object before any handler ran
Request(path, params, query, header, stack) ==
    [path |-> path, params |-> params, query |-> query, header |-> header,
     stack |-> stack, idx |-> 1, stage |-> "running",
     resolution |-> "UNRESOLVED", selected |-> Undefined, clientId |-> Undefined,
     status |-> 0, body |-> NoBody, nexts |-> 0, invoked |-> "none",
     xClientId |-> Undefined,
     cookie |-> Undefined, originalUrl |-> OriginalUrl(path, query),
     upstreamPath |-> << >>, upCookie |-> Undefined,
     upSetCookie |-> << >>, resSetCookie |-> << >>,
     headersSent |-> FALSE, upstreamFailed |-> FALSE, fault |-> "none"]

NoRequest ==
    [Request(<< >>, Undefined, Undefined, Undefined, << >>) EXCEPT !.stage = "idle"]

\* the synchronous chain of the current request has ended
Quiescent == cur.stage # "running"

\* next(): the following handler of the stack runs
CallNext(r) ==
    [r EXCEPT !.idx = r.idx + 1,
              !.stage = IF r.idx + 1 > Len(r.stack) THEN "continued" ELSE "running"]

\* res.status(code).json(body)
Respond(r, code, body) ==
    [r EXCEPT !.status = code, !.body = body, !.stage = "responded"]

Handler(name) == cur.stage = "running" /\ cur.stack[cur.idx] = name

(***************************************************************************)
(* Tenant resolution middleware                                            *)
(***************************************************************************)
\* a plausible slip: the header is consulted first
SelectClientIdHeaderFirst(r) == Or(Or(r.header, r.query), r.params)

\* req.params.clientId || req.query.clientId || req.headers['x-client-id']
SelectClientId(r) == Or(Or(r.params, r.query), r.header)

\* a plausible slip: the `return` before res.status(404) is missing
clientAuthNoReturn ==
    /\ Handler("clientAuth")
    /\ LET clientId == SelectClientId(cur) IN
       cur' = IF ~Truthy(clientId)
              THEN [Respond(cur, 400,
                        [error |-> "Client ID is required",
                         message |-> "Please provide client ID via URL parameter, query string, or header",
                         names |-> Undefined])
                    EXCEPT !.selected = clientId, !.resolution = "REJECTED"]
              ELSE [CallNext(cur) EXCEPT !.selected = clientId, !.clientId = clientId,
                        !.resolution = "RESOLVED", !.nexts = cur.nexts + 1,
                        !.status = IF Truthy(isValidClient(clientId)) THEN 0 ELSE 404]
    /\ UNCHANGED <<reqCount, owner, rstate, resp>>
    /\ UNCHANGED auxVars
    /\ UNCHANGED poolVars

\* clientAuth(req, res, next)
clientAuth ==
    /\ Handler("clientAuth")
    /\ LET clientId == SelectClientId(cur) IN
       cur' = IF ~Truthy(clientId)
              THEN [Respond(cur, 400,
                        [error |-> "Client ID is required",
                         message |-> "Please provide client ID via URL parameter, query string, or header",
                         names |-> Undefined])
                    EXCEPT !.selected = clientId, !.resolution = "REJECTED"]
              ELSE IF ~Truthy(isValidClient(clientId))
              THEN [Respond(cur, 404,
                        [error |-> "Unknown client",
                         message |-> "Client not found",
                         names |-> clientId])
                    EXCEPT !.selected = clientId, !.resolution = "REJECTED"]
              ELSE [CallNext(cur) EXCEPT !.selected = clientId, !.clientId = clientId,
                        !.resolution = "RESOLVED", !.nexts = cur.nexts + 1]
    /\ UNCHANGED <<reqCount, owner, rstate, resp>>
    /\ UNCHANGED auxVars
    /\ UNCHANGED poolVars

\* a plausible slip: the candidate id is bound without the registry check
optionalClientAuthUnchecked ==
    /\ Handler("optionalClientAuth")
    /\ LET clientId == SelectClientId(cur) IN
       cur' = IF Truthy(clientId)
              THEN [CallNext(cur) EXCEPT !.selected = clientId, !.clientId = clientId,
                        !.resolution = "RESOLVED", !.nexts = cur.nexts + 1]
              ELSE [CallNext(cur) EXCEPT !.selected = clientId,
                        !.resolution = "PASSED_THROUGH", !.nexts = cur.nexts + 1]
    /\ UNCHANGED <<reqCount, owner, rstate, resp>>
    /\ UNCHANGED auxVars
    /\ UNCHANGED poolVars

\* optionalClientAuth(req, res, next)
optionalClientAuth ==
    /\ Handler("optionalClientAuth")
    /\ LET clientId == SelectClientId(cur) IN
       cur' = IF Truthy(clientId) /\ Truthy(isValidClient(clientId))
              THEN [CallNext(cur) EXCEPT !.selected = clientId, !.clientId = clientId,
                        !.resolution = "RESOLVED", !.nexts = cur.nexts + 1]
              ELSE [CallNext(cur) EXCEPT !.selected = clientId,
                        !.resolution = "PASSED_THROUGH", !.nexts = cur.nexts + 1]
    /\ UNCHANGED <<reqCount, owner, rstate, resp>>
    /\ UNCHANGED auxVars
    /\ UNCHANGED poolVars

(***************************************************************************)
(* Route table                                                             *)
(***************************************************************************)
\* the controller methods mounted under /api/:clientId/
Metrics == <<"funnel", "daily", "hourly", "leads", "agents", "conversations",
             "links", "overview", "test">>

MetricRoute(i) ==
    [kind |-> "get", pattern |-> <<"api", ":clientId", Metrics[i]>>,
     stack |-> <<"clientAuth", Metrics[i]>>]

\* a plausible slip: the tenant-scoped dashboard route mounted with the permissive variant
RoutesPermissive ==
    <<[kind |-> "get", pattern |-> << >>, stack |-> <<"root">>],
      [kind |-> "get", pattern |-> <<"health">>, stack |-> <<"health">>],
      [kind |-> "get", pattern |-> <<"clients">>, stack |-> <<"listClients">>]>>
    \o [i \in 1..Len(Metrics) |-> MetricRoute(i)]
    \o <<[kind |-> "use", pattern |-> <<":clientId", "grafana">>,
          stack |-> <<"optionalClientAuth", "logAccess", "grafanaProxy">>],
         [kind |-> "use", pattern |-> <<"grafana">>,
          stack |-> <<"optionalClientAuth", "grafanaProxy">>],
         [kind |-> "all", pattern |-> << >>, stack |-> <<"notFound">>]>>

\* app.get / app.use in registration order
Routes ==
    <<[kind |-> "get", pattern |-> << >>, stack |-> <<"root">>],
      [kind |-> "get", pattern |-> <<"health">>, stack |-> <<"health">>],
      [kind |-> "get", pattern |-> <<"clients">>, stack |-> <<"listClients">>]>>
    \o [i \in 1..Len(Metrics) |-> MetricRoute(i)]
    \o <<[kind |-> "use", pattern |-> <<":clientId", "grafana">>,
          stack |-> <<"clientAuth", "logAccess", "grafanaProxy">>],
         [kind |-> "use", pattern |-> <<"grafana">>,
          stack |-> <<"optionalClientAuth", "grafanaProxy">>],
         [kind |-> "all", pattern |-> << >>, stack |-> <<"notFound">>]>>

\* a route matches a path: app.get matches the whole path, app.use a prefix of it
Matches(rt, path) ==
    \/ rt.kind = "all"
    \/ /\ rt.kind = "get" => Len(path) = Len(rt.pattern)
       /\ Len(path) >= Len(rt.pattern)
       /\ \A i \in 1..Len(rt.pattern) :
             rt.pattern[i] = ":clientId" \/ rt.pattern[i] = path[i]

\* the first route in registration order that matches
MatchRoute(path) ==
    Routes[CHOOSE i \in 1..Len(Routes) :
              /\ Matches(Routes[i], path)
              /\ \A j \in 1..(i - 1) : ~Matches(Routes[j], path)]

\* req.params.clientId for the matched route
ParamOf(rt, path) ==
    IF \E i \in 1..Len(rt.pattern) : rt.pattern[i] = ":clientId"
    THEN path[CHOOSE i \in 1..Len(rt.pattern) : rt.pattern[i] = ":clientId"]
    ELSE Undefined

\* request paths, as their segments
Paths ==
    {<< >>, <<"health">>, <<"nowhere">>,
     <<"api", "maple", "funnel">>, <<"api", "ghost", "leads">>,
     <<"api", "client2", "test">>, <<"api", "constructor", "test">>,
     <<"maple", "grafana">>, <<"ghost", "grafana", "d">>,
     <<"grafana">>, <<"grafana", "grafana">>}

\* controller methods that run one query through analyticsService
QueryMetrics == {"funnel", "daily", "hourly", "leads", "agents", "conversations", "links"}

(***************************************************************************)
(* Handlers                                                                *)
(***************************************************************************)
\* the request object handed to the stack of the first matching route
Routed(path, query, header, cookie) ==
    LET rt == MatchRoute(path) IN
    [Request(path, ParamOf(rt, path), query, header, rt.stack) EXCEPT !.cookie = cookie]

\* a request arrives and the router selects the first matching route
Receive(path, query, header, cookie) ==
    /\ Quiescent
    /\ reqCount < MaxReqs
    /\ reqCount' = reqCount + 1
    /\ cur' = Routed(path, query, header, cookie)
    /\ UNCHANGED <<owner, rstate, resp>>
    /\ UNCHANGED auxVars
    /\ UNCHANGED poolVars

\* the logging middleware of /:clientId/grafana
logAccess ==
    /\ Handler("logAccess")
    /\ cur' = CallNext(cur)
    /\ UNCHANGED <<reqCount, owner, rstate, resp>>
    /\ UNCHANGED auxVars
    /\ UNCHANGED poolVars

\* app.get('/'), AnalyticsController.health, AnalyticsController.listClients
staticHandler ==
    /\ \E h \in {"root", "health", "listClients"} : Handler(h)
    /\ cur' = [Respond(cur, 200, NoBody) EXCEPT !.invoked = cur.stack[cur.idx]]
    /\ UNCHANGED <<reqCount, owner, rstate, resp>>
    /\ UNCHANGED auxVars
    /\ UNCHANGED poolVars

\* app.use('*')
notFound ==
    /\ Handler("notFound")
    /\ cur' = [Respond(cur, 404,
                  [error |-> "Endpoint not found",
                   message |-> "The requested resource does not exist",
                   names |-> Undefined])
               EXCEPT !.invoked = "notFound"]
    /\ UNCHANGED <<reqCount, owner, rstate, resp>>
    /\ UNCHANGED auxVars
    /\ UNCHANGED poolVars

\* a controller method that awaits analyticsService.<metric>(req.clientId), which
\* awaits databaseManager.getConnection(clientId)
queryController(p) ==
    /\ \E h \in QueryMetrics : Handler(h)
    /\ getConnection(p, cur.clientId)
    /\ cur' = [cur EXCEPT !.stage = "awaiting", !.invoked = cur.stack[cur.idx]]
    /\ owner' = [owner EXCEPT ![p] = cur.stack[cur.idx]]
    /\ rstate' = [rstate EXCEPT ![p] = "connecting"]
    /\ UNCHANGED <<reqCount, resp>>
    /\ UNCHANGED auxVars

\* AnalyticsController.testDataSource: getClient(clientId), then getConnection(clientId)
testDataSource(p) ==
    /\ Handler("test")
    /\ pc[p] = "idle"
    /\ \A q \in 1..(p - 1) : pc[q] # "idle"
    /\ IF ~getClient(cur.clientId)
       THEN /\ cur' = [Respond(cur, 500,
                          [error |-> "Unknown client", message |-> Undefined,
                           names |-> cur.clientId])
                       EXCEPT !.invoked = "test"]
            /\ UNCHANGED <<owner, rstate>>
            /\ UNCHANGED poolVars
       ELSE /\ getConnection(p, cur.clientId)
            /\ cur' = [cur EXCEPT !.stage = "awaiting", !.invoked = "test"]
            /\ owner' = [owner EXCEPT ![p] = "test"]
            /\ rstate' = [rstate EXCEPT ![p] = "connecting"]
    /\ UNCHANGED <<reqCount, resp>>
    /\ UNCHANGED auxVars

(***************************************************************************)
(* The dashboard proxy                                                     *)
(***************************************************************************)
\* pat occurs in s at index i
Occurs(s, pat, i) ==
    /\ i + Len(pat) - 1 <= Len(s)
    /\ SubSeq(s, i, i + Len(pat) - 1) = pat

\* String.prototype.replace with a string pattern: the first occurrence is replaced
ReplaceFirst(s, pat, by) ==
    IF \E i \in 1..Len(s) : Occurs(s, pat, i)
    THEN LET i == CHOOSE k \in 1..Len(s) :
                     Occurs(s, pat, k) /\ \A j \in 1..(k - 1) : ~Occurs(s, pat, j)
         IN SubSeq(s, 1, i - 1) \o by \o SubSeq(s, i + Len(pat), Len(s))
    ELSE s

\* `${v}` in a template literal
TemplateString(v) == IF v = Undefined THEN "undefined" ELSE v

\* a plausible slip: the whole mount path is removed, not the tenant segment alone
pathRewriteMount(path, req) ==
    ReplaceFirst(path, <<"/", TemplateString(req.params), "/", "grafana">>, << >>)

\* pathRewrite: path.replace(`/${req.params.clientId}`, '')
pathRewrite(path, req) ==
    ReplaceFirst(path, <<"/", TemplateString(req.params)>>, << >>)

\* the proxy copies the inbound request headers onto the upstream request
ForwardedHeaders(req) == [xClientId |-> req.header, cookie |-> req.cookie]

\* a plausible slip: X-Client-Id is only set when the inbound request has none
onProxyReqKeepInbound(h, req) ==
    [xClientId |-> IF Truthy(req.clientId) /\ h.xClientId = Undefined
                   THEN req.clientId ELSE h.xClientId,
     cookie |-> IF Truthy(req.cookie) THEN req.cookie ELSE h.cookie]

\* onProxyReq: X-Client-Id is set when req.clientId is truthy, Cookie is set again
\* when the inbound request has one
onProxyReq(h, req) ==
    [xClientId |-> IF Truthy(req.clientId) THEN req.clientId ELSE h.xClientId,
     cookie |-> IF Truthy(req.cookie) THEN req.cookie ELSE h.cookie]

\* a plausible slip: the cookie domain is rewritten to the gateway's
cookieDomainRewriteGateway(c) == [c EXCEPT !.domain = "gateway"]

\* cookieDomainRewrite: false
cookieDomainRewrite(c) == c

\* cookiePathRewrite: false
cookiePathRewrite(c) == c

\* onProxyRes: Set-Cookie of the upstream response is set on the client response
onProxyRes(setCookie, proxyRes) ==
    IF proxyRes # << >> THEN proxyRes ELSE setCookie

\* the proxy then writes the upstream headers, cookies through the two rewrites
WriteHeaders(setCookie, proxyRes) ==
    IF proxyRes # << >>
    THEN [i \in 1..Len(proxyRes) |-> cookiePathRewrite(cookieDomainRewrite(proxyRes[i]))]
    ELSE setCookie

\* the proxy middleware: the path is rewritten, onProxyReq runs, the request is sent
grafanaProxy ==
    /\ Handler("grafanaProxy")
    /\ LET h == onProxyReq(ForwardedHeaders(cur), cur) IN
       cur' = [cur EXCEPT !.stage = "proxied", !.invoked = "grafanaProxy",
                          !.upstreamPath = pathRewrite(cur.originalUrl, cur),
                          !.xClientId = h.xClientId,
                          !.upCookie = h.cookie]
    /\ UNCHANGED <<reqCount, owner, rstate, resp>>
    /\ UNCHANGED auxVars
    /\ UNCHANGED poolVars

\* the upstream answers: onProxyRes runs, the headers are written, the body streams
proxyResponse(cookies) ==
    /\ cur.stage = "proxied"
    /\ cur' = [cur EXCEPT !.stage = "streaming", !.status = 200, !.headersSent = TRUE,
                          !.upSetCookie = cookies,
                          !.resSetCookie =
                              WriteHeaders(onProxyRes(cur.resSetCookie, cookies), cookies)]
    /\ UNCHANGED <<reqCount, owner, rstate, resp>>
    /\ UNCHANGED auxVars
    /\ UNCHANGED poolVars

\* the upstream response ended
proxyEnd ==
    /\ cur.stage = "streaming"
    /\ cur' = [cur EXCEPT !.stage = "responded"]
    /\ UNCHANGED <<reqCount, owner, rstate, resp>>
    /\ UNCHANGED auxVars
    /\ UNCHANGED poolVars

\* onError: res.status(502).json(...); json() throws once the headers were sent
onError ==
    /\ cur.stage \in {"proxied", "streaming"}
    /\ cur' = IF cur.headersSent
              THEN [cur EXCEPT !.stage = "aborted", !.upstreamFailed = TRUE,
                               !.fault = "ERR_HTTP_HEADERS_SENT"]
              ELSE [Respond(cur, 502,
                        [error |-> "Grafana service unavailable",
                         message |-> "Unable to connect to Grafana dashboard",
                         names |-> Undefined])
                    EXCEPT !.upstreamFailed = TRUE, !.headersSent = TRUE]
    /\ UNCHANGED <<reqCount, owner, rstate, resp>>
    /\ UNCHANGED auxVars
    /\ UNCHANGED poolVars

\* the upstream connection is reset while the body streams and no error event is
\* delivered to the proxy: the client's response is cut short
proxyAbort ==
    /\ cur.stage = "streaming"
    /\ cur' = [cur EXCEPT !.stage = "aborted", !.upstreamFailed = TRUE]
    /\ UNCHANGED <<reqCount, owner, rstate, resp>>
    /\ UNCHANGED auxVars
    /\ UNCHANGED poolVars

\* message of the errors thrown by the data access layer and by getClient
ErrorMessage(name) ==
    CASE name = "ConnectionError" -> "connect ECONNREFUSED"
      [] name = "DatabaseError" -> "relation does not exist"
      [] name = "UnknownClient" -> "Unknown client"
      [] OTHER -> Undefined

\* an error object thrown inside call p; it has no clientId or operation property
ThrownError(name, p) ==
    [id |-> p, name |-> name, message |-> ErrorMessage(name),
     clientId |-> Undefined, operation |-> Undefined]

NoError == [id |-> 0, name |-> "none", message |-> Undefined,
            clientId |-> Undefined, operation |-> Undefined]

\* the service's catch block: console.error(...); throw error
Rethrow(error) == error

\* the controller's catch block: res.status(500).json({ error: error.message })
ControllerErrorBody(error) ==
    [error |-> error.message, message |-> Undefined, names |-> Undefined]

\* the controller resumes with the connection: the query is awaited, or (test) 200 is sent
controllerConnected(p) ==
    /\ Quiescent
    /\ rstate[p] = "connecting" /\ pc[p] = "returned"
    /\ IF owner[p] = "test"
       THEN /\ rstate' = [rstate EXCEPT ![p] = "responded"]
            /\ resp' = [resp EXCEPT ![p] = 200]
            /\ UNCHANGED qtries
       ELSE /\ rstate' = [rstate EXCEPT ![p] = "querying"]
            /\ qtries' = [qtries EXCEPT ![p] = qtries[p] + 1]
            /\ UNCHANGED resp
    /\ UNCHANGED <<cur, reqCount, owner, rbody, qerr, env, ov, lookups>>
    /\ UNCHANGED poolVars

\* getConnection rejected: the controller's catch sends 500
controllerConnectFailed(p) ==
    /\ Quiescent
    /\ rstate[p] = "connecting" /\ pc[p] = "rejected"
    /\ rstate' = [rstate EXCEPT ![p] = "responded"]
    /\ resp' = [resp EXCEPT ![p] = 500]
    /\ qerr' = [qerr EXCEPT ![p] = Rethrow(ThrownError(err[p], p))]
    /\ rbody' = [rbody EXCEPT ![p] = ControllerErrorBody(qerr'[p])]
    /\ UNCHANGED <<cur, reqCount, owner, qtries, env, ov, lookups>>
    /\ UNCHANGED poolVars

\* connection.query resolved: res.json
queryOk(p) ==
    /\ Quiescent
    /\ rstate[p] = "querying"
    /\ rstate' = [rstate EXCEPT ![p] = "responded"]
    /\ resp' = [resp EXCEPT ![p] = 200]
    /\ UNCHANGED <<cur, reqCount, owner>>
    /\ UNCHANGED auxVars
    /\ UNCHANGED poolVars

\* connection.query rejected: the service rethrows, the controller's catch sends 500
queryFails(p) ==
    /\ Quiescent
    /\ rstate[p] = "querying"
    /\ rstate' = [rstate EXCEPT ![p] = "responded"]
    /\ resp' = [resp EXCEPT ![p] = 500]
    /\ qerr' = [qerr EXCEPT ![p] = Rethrow(ThrownError("DatabaseError", p))]
    /\ rbody' = [rbody EXCEPT ![p] = ControllerErrorBody(qerr'[p])]
    /\ UNCHANGED <<cur, reqCount, owner, qtries, env, ov, lookups>>
    /\ UNCHANGED poolVars

(***************************************************************************)
(* getDashboardOverview: five operations joined by Promise.all             *)
(***************************************************************************)
\* the operations getDashboardOverview passes to Promise.all, in array order
OverviewOps == <<"funnel", "leads", "agents", "conversations", "links">>

Branches == 1..Len(OverviewOps)

\* firstFailed is an observer: the first branch whose promise rejected
NoOverview ==
    [stage |-> "idle", clientId |-> Undefined, started |-> 0, error |-> NoError,
     composite |-> {}, status |-> 0, body |-> NoBody, firstFailed |-> 0]

\* the controller calls the service, which starts the five operations one after
\* the other in one synchronous run (no promise settles before the fifth has
\* started); each runs up to its await of getConnection
getDashboardOverview(clientId) ==
    /\ ov.stage \in {"idle", "fanout"}
    /\ ov.stage = "fanout" => clientId = ov.clientId
    /\ LET p == ov.started + 1 IN
       /\ getConnection(p, clientId)
       /\ owner' = [owner EXCEPT ![p] = OverviewOps[p]]
       /\ rstate' = [rstate EXCEPT ![p] = "connecting"]
       /\ ov' = [ov EXCEPT !.clientId = clientId, !.started = p,
                           !.stage = IF p = Len(OverviewOps) THEN "pending"
                                     ELSE "fanout"]
    /\ UNCHANGED <<cur, reqCount, resp, rbody, qerr, qtries, env, lookups>>

\* a plausible slip: the join waits for every branch and keeps what succeeded
PromiseAllSettled(o, rs, e) ==
    IF o.stage # "pending" THEN o
    ELSE IF \A q \in Branches : rs[q] \in {"fulfilled", "failed"}
    THEN [o EXCEPT !.stage = "resolved", !.status = 200,
                   !.composite = {OverviewOps[q] : q \in {b \in Branches :
                                                            rs[b] = "fulfilled"}}]
    ELSE o

\* await Promise.all([...]) seen from the controller after one branch settled
\* (rs: the branches' states, e: the error of the branch if it rejected):
\* the first rejection is rethrown by the service and the controller's catch
\* sends 500; when all five are fulfilled the composite record is sent
PromiseAll(o, rs, e) ==
    IF o.stage # "pending" THEN o
    ELSE IF e # NoError
    THEN [o EXCEPT !.stage = "rejected", !.error = Rethrow(e), !.status = 500,
                   !.body = ControllerErrorBody(Rethrow(e))]
    ELSE IF \A q \in Branches : rs[q] = "fulfilled"
    THEN [o EXCEPT !.stage = "resolved", !.status = 200,
                   !.composite = {OverviewOps[q] : q \in Branches}]
    ELSE o

\* a branch settled: its promise, then the join
BranchSettles(p, state, e) ==
    /\ rstate' = [rstate EXCEPT ![p] = state]
    /\ qerr' = [qerr EXCEPT ![p] = e]
    /\ ov' = [PromiseAll(ov, rstate', e) EXCEPT !.firstFailed =
                 IF e # NoError /\ \A q \in Branches : rstate[q] # "failed"
                 THEN p ELSE ov.firstFailed]
    /\ UNCHANGED <<cur, reqCount, owner, resp, rbody, qtries, env, lookups>>
    /\ UNCHANGED poolVars

\* getConnection rejected inside a branch: its catch rethrows
branchConnectFailed(p) ==
    /\ ov.stage \notin {"idle", "fanout"}
    /\ rstate[p] = "connecting" /\ pc[p] = "rejected"
    /\ BranchSettles(p, "failed", Rethrow(ThrownError(err[p], p)))

\* connection.query resolved inside a branch
branchOk(p) ==
    /\ ov.stage \notin {"idle", "fanout"}
    /\ rstate[p] = "querying"
    /\ BranchSettles(p, "fulfilled", NoError)

\* connection.query rejected inside a branch: its catch rethrows
branchFails(p) ==
    /\ ov.stage \notin {"idle", "fanout"}
    /\ rstate[p] = "querying"
    /\ BranchSettles(p, "failed", Rethrow(ThrownError("DatabaseError", p)))

\* the controllers' call records, with P calls, before any request
ControllersInitOver(P) ==
    /\ owner = [p \in P |-> "none"]
    /\ rstate = [p \in P |-> "none"]
    /\ resp = [p \in P |-> 0]
    /\ rbody = [p \in P |-> NoBody]
    /\ qerr = [p \in P |-> NoError]
    /\ qtries = [p \in P |-> 0]
    /\ env = "production"
    /\ ov = NoOverview
    /\ lookups = << >>

HttpInit ==
    /\ cur = NoRequest
    /\ reqCount = 0
    /\ ControllersInitOver(Procs)

(***************************************************************************)
(* The pool used through its interface                                     *)
(***************************************************************************)
Init == PoolInit /\ HttpInit

Next ==
    \/ \E p \in Procs, t \in CallArgs : getConnection(p, t) /\ UNCHANGED httpVars
    \/ \E p \in Procs : AuthenticateOk(p) /\ UNCHANGED httpVars
    \/ \E p \in Procs : AuthenticateFails(p) /\ UNCHANGED httpVars
    \/ closeAll /\ UNCHANGED httpVars
    \/ CloseOk /\ UNCHANGED httpVars
    \/ CloseFails /\ UNCHANGED httpVars

Spec == Init /\ [][Next]_vars

(***************************************************************************)
(* The middleware applied to every combination of the three sources        *)
(***************************************************************************)
MwInit ==
    /\ PoolInit
    /\ reqCount = 1
    /\ ControllersInitOver(Procs)
    /\ \E mw \in {"clientAuth", "optionalClientAuth"}, a, b, c \in IdValues :
          cur = Request(<< >>, a, b, c, <<mw>>)

MwNext ==
    \/ clientAuth
    \/ optionalClientAuth

MwSpec == MwInit /\ [][MwNext]_vars

(***************************************************************************)
(* The gateway: requests routed to the controllers and the proxy           *)
(***************************************************************************)
HttpNext ==
    \/ \E path \in Paths, query, header \in IdValues :
          Receive(path, query, header, Undefined)
    \/ clientAuth
    \/ optionalClientAuth
    \/ logAccess
    \/ staticHandler
    \/ notFound
    \/ \E p \in Procs : queryController(p)
    \/ \E p \in Procs : testDataSource(p)
    \/ grafanaProxy
    \/ \E p \in Procs : Quiescent /\ AuthenticateOk(p) /\ UNCHANGED httpVars
    \/ \E p \in Procs : Quiescent /\ AuthenticateFails(p) /\ UNCHANGED httpVars
    \/ \E p \in Procs : controllerConnected(p)
    \/ \E p \in Procs : controllerConnectFailed(p)
    \/ \E p \in Procs : queryOk(p)
    \/ \E p \in Procs : queryFails(p)

HttpSpec == Init /\ [][HttpNext]_vars

(***************************************************************************)
(* The registry looked up with any id                                      *)
(***************************************************************************)
MaxLookups == 2      \* registry lookups made in one behaviour

\* isValidClient(id) is called
callIsValidClient(id) ==
    /\ Len(lookups) < MaxLookups
    /\ lookups' = Append(lookups, [op |-> "isValidClient", id |-> id,
                                   result |-> isValidClient(id), threw |-> FALSE])
    /\ UNCHANGED <<cur, reqCount, owner, rstate, resp, rbody, qerr, qtries, env, ov>>
    /\ UNCHANGED poolVars

\* getClient(id) is called: it returns clients[id] or throws
callGetClient(id) ==
    /\ Len(lookups) < MaxLookups
    /\ lookups' = Append(lookups, [op |-> "getClient", id |-> id,
                                   result |-> ClientsLookup(id),
                                   threw |-> ~getClient(id)])
    /\ UNCHANGED <<cur, reqCount, owner, rstate, resp, rbody, qerr, qtries, env, ov>>
    /\ UNCHANGED poolVars

RegistryNext ==
    \/ \E id \in IdValues : callIsValidClient(id)
    \/ \E id \in IdValues : callGetClient(id)

RegistrySpec == Init /\ [][RegistryNext]_vars

(***************************************************************************)
(* One getDashboardOverview call on an empty pool                          *)
(***************************************************************************)
OverviewInit ==
    /\ PoolInitOver(Branches, Branches)
    /\ ControllersInitOver(Branches)
    /\ cur = NoRequest
    /\ reqCount = 0

OverviewNext ==
    \/ \E clientId \in clients : getDashboardOverview(clientId)
    \/ \E p \in Branches : ov.stage # "fanout" /\ AuthenticateOk(p) /\ UNCHANGED httpVars
    \/ \E p \in Branches : ov.stage # "fanout" /\ AuthenticateFails(p) /\ UNCHANGED httpVars
    \/ \E p \in Branches : controllerConnected(p)
    \/ \E p \in Branches : branchConnectFailed(p)
    \/ \E p \in Branches : branchOk(p)
    \/ \E p \in Branches : branchFails(p)

OverviewSpec == OverviewInit /\ [][OverviewNext]_vars

(***************************************************************************)
(* The dashboard proxy: requests to the two proxy routes and their         *)
(* exchange with the upstream                                              *)
(***************************************************************************)
\* request paths under the two proxy routes
ProxyPaths ==
    {<<"maple", "grafana", "maple">>, <<"client2", "grafana">>,
     <<"ghost", "grafana", "d">>, <<"grafana">>, <<"grafana", "grafana">>,
     <<"grafana", "maple", "d">>, <<"grafana", "undefined", "d">>}

\* values of the inbound Cookie header
Cookies == {Undefined, "", "sid=1"}

SessionCookie == [pair |-> "grafana_session=1", domain |-> "grafana.internal", path |-> "/"]
LangCookie == [pair |-> "lang=en", domain |-> Undefined, path |-> "/grafana"]

\* Set-Cookie headers of an upstream response
SetCookieLists ==
    {<< >>, <<SessionCookie>>, <<SessionCookie, LangCookie>>,
     <<LangCookie, SessionCookie>>, <<SessionCookie, SessionCookie>>}

\* one request to a proxy route, with every combination of its inputs
ProxyInit ==
    /\ PoolInit
    /\ ControllersInitOver(Procs)
    /\ reqCount = 1
    /\ \E path \in ProxyPaths, query, header \in IdValues, cookie \in Cookies :
          cur = Routed(path, query, header, cookie)

ProxyNext ==
    \/ clientAuth
    \/ optionalClientAuth
    \/ logAccess
    \/ grafanaProxy
    \/ \E cookies \in SetCookieLists : proxyResponse(cookies)
    \/ proxyEnd
    \/ onError
    \/ proxyAbort

ProxySpec == ProxyInit /\ [][ProxyNext]_vars

(***************************************************************************)
(* Properties of the connection pool                                       *)
(***************************************************************************)
\* handles whose liveness check passed and on which close() was never invoked
Live(t) == {h \in Handles : htenant[h] = t /\ hstate[h] = "authenticated"}

\* C1: getConnection calls for one tenant that are in flight together while no
\* handle is cached establish one connection and all return the same handle.
C1_SingleFlight ==
    \A p, q \in Procs :
        (/\ pc[p] = "returned" /\ pc[q] = "returned"
         /\ ~hitCache[p] /\ ~hitCache[q]
         /\ q \in concurrentWith[p])
        => /\ ret[p] = ret[q]
           /\ Cardinality({h \in {sequelize[p], sequelize[q]} :
                              hstate[h] # "authFailed"}) = 1

\* C2: per tenant at most one handle is established and not closed, and every
\* such handle is the one held by the cache.
C2_AtMostOneHandle ==
    \A t \in clients :
        /\ Cardinality(Live(t)) <= 1
        /\ \A h \in Live(t) : MapGet(connections, t) = h

\* C3: a call whose authenticate() fails rejects with that error and leaves both
\* maps as they were; a handle whose liveness check failed is never cached and
\* never returned, so the next call for the tenant establishes afresh.
C3_FailureNotCached ==
    [][/\ \A p \in Procs :
            (pc[p] = "authenticate" /\ pc'[p] = "rejected")
            => /\ connections' = connections
               /\ models' = models
               /\ err'[p] = "ConnectionError"
               /\ ret'[p] = NoHandle
       /\ \A h \in Handles :
            hstate'[h] = "authFailed"
            => /\ h \notin MapValues(connections')
               /\ \A k \in DOMAIN models' : models'[k] # h
               /\ \A p \in Procs : ret'[p] # h]_vars

\* a call failed for a tenant and a later call for it established and cached a new handle
C3_Witness ==
    \E p, q \in Procs :
        /\ pc[p] = "rejected" /\ err[p] = "ConnectionError"
        /\ arg[q] = arg[p] /\ pc[q] = "returned" /\ ~hitCache[q]
        /\ p \notin concurrentWith[q] /\ q \notin concurrentWith[p]
        /\ sequelize[q] > sequelize[p]
        /\ ret[q] = sequelize[q]
        /\ MapGet(connections, arg[q]) = sequelize[q]

\* C4: a call issued after a closeAll run completed never returns a handle that
\* run (or an earlier one) closed; when it finds no cached handle it returns the
\* connection it established itself.
C4_NoReuseAfterCloseAll ==
    \A p \in Procs :
        (pc[p] = "returned" /\ startEpoch[p] >= 1)
        => /\ closedIn[ret[p]] \notin 1..startEpoch[p]
           /\ ~hitCache[p] => ret[p] = sequelize[p]

\* a tenant was cached, closeAll closed its handle, a later call got a new one
C4_Witness ==
    \E p \in Procs, h \in Handles :
        /\ pc[p] = "returned" /\ startEpoch[p] >= 1
        /\ htenant[h] = arg[p] /\ closedIn[h] \in 1..startEpoch[p]
        /\ ret[p] = sequelize[p] /\ ret[p] # h
        /\ hstate[ret[p]] = "authenticated"

C6_CachedHandleStable ==
    [][/\ \A p \in Procs :
            (pc[p] = "idle" /\ pc'[p] = "returned")
            => /\ ret'[p] = MapGet(connections, arg'[p])
               /\ connections' = connections
               /\ models' = models
               /\ nextHandle' = nextHandle
       /\ \A h \in MapValues(connections) :
            h \notin MapValues(connections') => epoch' # epoch]_vars

(***************************************************************************)
(* Properties of tenant resolution and routing                             *)
(***************************************************************************)
NonEmpty(v) == v # Undefined /\ v # ""

\* the first non-empty of path parameter, query parameter, header; Undefined if none
FirstNonEmpty(r) ==
    IF NonEmpty(r.params) THEN r.params
    ELSE IF NonEmpty(r.query) THEN r.query
    ELSE IF NonEmpty(r.header) THEN r.header
    ELSE Undefined

StrictDone == cur.stage # "idle" /\ cur.stack[1] = "clientAuth" /\ cur.resolution # "UNRESOLVED"

PermissiveDone ==
    cur.stage # "idle" /\ cur.stack[1] = "optionalClientAuth" /\ cur.resolution # "UNRESOLVED"

\* C7: after clientAuth ran: no id in any source gives 400 and no next(); an
\* unregistered id gives 404 naming it and no next(); otherwise the id is bound
\* as req.clientId, next() is called once and no error response is sent.
C7_StrictResolution ==
    StrictDone =>
        LET id == FirstNonEmpty(cur) IN
        /\ id = Undefined
           => /\ cur.status = 400 /\ cur.stage = "responded"
              /\ cur.nexts = 0 /\ cur.clientId = Undefined
              /\ cur.resolution = "REJECTED"
        /\ (id # Undefined /\ id \notin clients)
           => /\ cur.status = 404 /\ cur.stage = "responded"
              /\ cur.body.error = "Unknown client" /\ cur.body.names = id
              /\ cur.nexts = 0 /\ cur.clientId = Undefined
              /\ cur.resolution = "REJECTED"
        /\ id \in clients
           => /\ cur.clientId = id /\ cur.nexts = 1
              /\ cur.status = 0 /\ cur.body = NoBody /\ cur.stage # "responded"
              /\ cur.resolution = "RESOLVED"

\* the only id comes from the query string and is not registered: 404, no next()
C7_Witness ==
    /\ StrictDone
    /\ cur.params = Undefined /\ cur.query = "ghost" /\ cur.header = ""
    /\ cur.status = 404 /\ cur.nexts = 0

\* C8: both variants select the first non-empty of path parameter, query
\* parameter, header, in that order; an unregistered id of higher precedence is
\* never replaced by a registered one of lower precedence.
C8_Precedence ==
    (cur.stage # "idle" /\ cur.resolution # "UNRESOLVED") =>
        LET id == FirstNonEmpty(cur) IN
        /\ id # Undefined => cur.selected = id
        /\ id = Undefined => ~Truthy(cur.selected)
        /\ cur.clientId # Undefined => cur.clientId = id
        /\ id \notin clients => cur.clientId = Undefined
        /\ cur.status = 404 => cur.body.names = id

\* path, query and header all differ; the unregistered path id is the one selected
C8_Witness ==
    /\ cur.resolution # "UNRESOLVED"
    /\ cur.params = "ghost" /\ cur.query = "maple" /\ cur.header = "client2"
    /\ cur.selected = "ghost" /\ cur.clientId = Undefined
    /\ cur.stack[1] = "optionalClientAuth"

\* C9: optionalClientAuth sends no response, calls next() exactly once, and
\* binds req.clientId exactly when an id is found and registered.
C9_PermissiveResolution ==
    PermissiveDone =>
        /\ cur.status = 0 /\ cur.body = NoBody /\ cur.stage # "responded"
        /\ cur.nexts = 1
        /\ cur.clientId # Undefined <=> FirstNonEmpty(cur) \in clients
        /\ cur.clientId # Undefined => cur.clientId = FirstNonEmpty(cur)
        /\ cur.resolution = (IF cur.clientId # Undefined THEN "RESOLVED"
                             ELSE "PASSED_THROUGH")

\* an unregistered id in the header: the request continues unbound
C9_Witness ==
    /\ PermissiveDone
    /\ cur.params = Undefined /\ cur.query = "" /\ cur.header = "ghost"
    /\ cur.clientId = Undefined /\ cur.nexts = 1 /\ cur.status = 0

\* C10: on the routes with a :clientId path parameter a controller method or
\* the proxy runs only with req.clientId bound to a registered tenant; a
\* request rejected by clientAuth reaches no handler, and getConnection is only
\* ever called with a registered tenant id.
C10_StrictGuardsDownstream ==
    /\ (cur.stage # "idle" /\ cur.params # Undefined /\ cur.invoked # "none")
       => /\ cur.clientId \in clients
          /\ cur.clientId = cur.params
          /\ cur.resolution = "RESOLVED"
          /\ cur.status = 0
    /\ (cur.stage # "idle" /\ cur.params # Undefined /\ cur.params \notin clients)
       => /\ cur.invoked = "none"
          /\ cur.xClientId = Undefined
          /\ cur.stage \in {"running", "responded"}
    /\ \A p \in Procs :
          owner[p] # "none" => (arg[p] \in clients /\ err[p] # "UnknownClient")
    /\ \A i \in 1..Len(Routes) :
          (\E k \in 1..Len(Routes[i].pattern) : Routes[i].pattern[k] = ":clientId")
          => Routes[i].stack[1] = "clientAuth"

\* one request reached the pool for a registered tenant, the next one was
\* rejected for an unregistered tenant before the proxy
C10_Witness ==
    /\ cur.path = <<"ghost", "grafana", "d">>
    /\ cur.status = 404 /\ cur.invoked = "none"
    /\ cur.query = "maple" /\ cur.header = "maple"
    /\ \E p \in Procs : owner[p] = "funnel" /\ arg[p] = "maple"

(***************************************************************************)
(* The dashboard proxy: path, headers, cookies, failures                   *)
(***************************************************************************)
Proxied == cur.invoked = "grafanaProxy"

TenantRoute == Proxied /\ cur.params # Undefined

\* C11 as stated: for every proxied request with a resolved tenant id T, the
\* forwarded path is the original path with the first /T segment removed
C11_PathRewriteEveryRoute ==
    (Proxied /\ cur.resolution = "RESOLVED") =>
        cur.upstreamPath = ReplaceFirst(cur.originalUrl, <<"/", cur.clientId>>, << >>)

\* C11 (amended): for every request proxied through /:clientId/grafana, the
\* original path is /T followed by the forwarded path, T being the resolved
\* tenant id; nothing but that leading segment is removed, query string included
C11_PathRewriteTenantRoute ==
    TenantRoute =>
        /\ cur.resolution = "RESOLVED"
        /\ cur.originalUrl = <<"/", cur.clientId>> \o cur.upstreamPath

C11_Witness ==
    /\ TenantRoute
    /\ cur.path = <<"maple", "grafana", "maple">>
    /\ cur.query = "client2"
    /\ cur.upstreamPath = <<"/", "grafana", "/", "maple", "?clientId=", "client2">>

\* C12: the upstream request of a proxied request carries X-Client-Id equal to
\* the resolved tenant id when resolution succeeded, and no X-Client-Id header
\* when it did not, whatever the inbound headers
C12_TenantHeader ==
    Proxied =>
        IF cur.resolution = "RESOLVED"
        THEN cur.xClientId = cur.clientId /\ cur.clientId \in clients
        ELSE cur.xClientId = Undefined

\* C13: the Cookie header reaches the upstream as it came in, and the client
\* response carries the upstream's Set-Cookie values, all of them, in order,
\* with their attributes, and nothing else
C13_CookiePassthrough ==
    Proxied =>
        /\ cur.upCookie = cur.cookie
        /\ cur.resSetCookie = cur.upSetCookie

C13_Witness ==
    /\ cur.stage = "streaming"
    /\ cur.cookie = "sid=1" /\ cur.upCookie = "sid=1"
    /\ cur.resSetCookie = <<LangCookie, SessionCookie>>

\* C14: whenever the upstream failed during a proxied request the client got
\* status 502 with error 'Grafana service unavailable', and no fault escaped
C14_UpstreamFailure502 ==
    cur.upstreamFailed =>
        /\ cur.status = 502
        /\ cur.body.error = "Grafana service unavailable"
        /\ cur.fault = "none"

\* C20: on /:clientId/grafana, whenever the proxy runs, the id removed from the
\* path, the id bound by strict resolution and the X-Client-Id sent upstream are
\* one registered tenant id, whatever the query parameter and the inbound header
C20_TenantRouteOneId ==
    TenantRoute =>
        /\ cur.params \in clients
        /\ cur.clientId = cur.params
        /\ cur.xClientId = cur.params
        /\ pathRewrite(cur.originalUrl, cur) = cur.upstreamPath
        /\ cur.upstreamPath = Tail(Tail(cur.originalUrl))
        /\ cur.originalUrl[2] = cur.params

C20_Witness ==
    /\ TenantRoute
    /\ cur.params = "maple" /\ cur.query = "ghost" /\ cur.header = "client2"
    /\ cur.xClientId = "maple"

(***************************************************************************)
(* The overview join                                                       *)
(***************************************************************************)
\* C15: getDashboardOverview is a fail-fast join: once a branch has failed the
\* call has failed with the first failing branch's error and returned no
\* composite record, whatever the other branches did; it returns the composite
\* record only when all five branches succeeded
C15_FailFastJoin ==
    /\ (\E q \in Branches : rstate[q] = "failed") => ov.stage = "rejected"
    /\ ov.stage = "rejected" =>
          /\ ov.status = 500 /\ ov.composite = {}
          /\ ov.firstFailed \in Branches
          /\ ov.error = qerr[ov.firstFailed]
          /\ ov.body.error = qerr[ov.firstFailed].message
    /\ ov.stage = "resolved" =>
          /\ \A q \in Branches : rstate[q] = "fulfilled"
          /\ ov.composite = {OverviewOps[q] : q \in Branches}
          /\ ov.status = 200
    /\ ov.composite # {} => ov.stage = "resolved"

C15_Witness ==
    /\ ov.stage = "rejected"
    /\ \A q \in Branches : rstate[q] \in {"fulfilled", "failed"}
    /\ Cardinality({q \in Branches : rstate[q] = "fulfilled"}) = 3
    /\ ov.firstFailed = 4 /\ rstate[2] = "failed"

(***************************************************************************)
(* Errors of the metrics layer and error responses                         *)
(***************************************************************************)
\* C16: every failure of a data access inside a metrics operation reaches the
\* caller as a QueryError carrying the tenant id and the name of the failed
\* operation, and the query was executed at most once
C16_QueryErrorCarriesContext ==
    \A p \in Procs :
        /\ qtries[p] <= 1
        /\ (owner[p] \in QueryMetrics /\ qerr[p] # NoError) =>
              /\ qerr[p].name = "QueryError"
              /\ qerr[p].clientId = arg[p]
              /\ qerr[p].operation = owner[p]

\* C17: every error response (400, 404, 500, 502) is a JSON object with both an
\* error field and a message field
C17_ErrorBodyShape ==
    /\ cur.status >= 400 =>
          cur.body.error # Undefined /\ cur.body.message # Undefined
    /\ \A p \in Procs :
          resp[p] >= 400 =>
              rbody[p].error # Undefined /\ rbody[p].message # Undefined

\* C18: for every id that is not registered isValidClient returns a false
\* value without failing and getClient fails; for every registered id
\* isValidClient is true and getClient returns the descriptor
C18_RegistryAgreement ==
    \A i \in 1..Len(lookups) :
        LET l == lookups[i] IN
        IF l.op = "isValidClient"
        THEN ~l.threw /\ (Truthy(l.result) <=> l.id \in clients)
        ELSE IF l.id \in clients
             THEN ~l.threw /\ l.result = "descriptor"
             ELSE l.threw

\* C19: outside development mode the body of a 500 response holds no detail of
\* the underlying data-access error
C19_NoDetailOutsideDevelopment ==
    env # "development" =>
        \A p \in Procs :
            resp[p] = 500 =>
                /\ rbody[p].error # qerr[p].message
                /\ rbody[p].message # qerr[p].message

(***************************************************************************)
(* The proxy routes and the route order                                    *)
(***************************************************************************)
\* C21: on the fallback route /grafana, where there is no tenant path
\* parameter, the path forwarded upstream equals the original path, whether or
\* not a tenant was resolved from the query string or the header
C21_FallbackPathUnchanged ==
    (Proxied /\ cur.params = Undefined) => cur.upstreamPath = cur.originalUrl

\* C22: every request whose path begins with /grafana is handled by the
\* fallback route: it goes through permissive resolution and reaches the proxy,
\* and is never answered 400 or 404 by the strict middleware
C22_GrafanaPathsReachFallback ==
    (cur.stage # "idle" /\ Len(cur.path) >= 1 /\ cur.path[1] = "grafana") =>
        /\ cur.stack = <<"optionalClientAuth", "grafanaProxy">>
        /\ cur.status \notin {400, 404}
        /\ cur.stage # "running" => Proxied

(***************************************************************************)
(* closeAll interleaved with getConnection                                 *)
(***************************************************************************)
\* C23: whatever the interleaving of closeAll and getConnection, a call never
\* returns a handle on which closeAll has already invoked close()
C23_NeverReturnsClosingHandle ==
    [][\A p \in Procs :
          (pc[p] # "returned" /\ pc'[p] = "returned")
          => /\ closedIn[ret'[p]] = 0
             /\ hstate[ret'[p]] \notin {"closing", "closed", "closeFailed"}]_vars

\* C24: after a closeAll run completed the cache holds only handles established
\* by calls that started after it: a call that was awaiting authenticate() while
\* the run went on inserts nothing into the cleared cache, and every handle
\* established by a call that started before the run completed is closed
C24_CacheCleanAfterCloseAll ==
    /\ \A i \in 1..Len(connections) :
          \E p \in Procs :
              sequelize[p] = connections[i].value /\ startEpoch[p] = epoch
    /\ \A p \in Procs :
          (startEpoch[p] < epoch /\ sequelize[p] # NoHandle
           /\ hstate[sequelize[p]] # "authFailed" /\ pc[p] # "authenticate")
          => hstate[sequelize[p]] \in {"closed", "closeFailed"}

\* C25: between asynchronous steps the connections map and the models map have
\* the same keys, every key is a registered tenant id, and every cached handle
\* passed its authenticate() check
C25_MapsInStep ==
    /\ MapKeys(connections) = DOMAIN models
    /\ MapKeys(connections) \subseteq clients
    /\ \A i \in 1..Len(connections) :
          /\ hstate[connections[i].value]
                 \in {"authenticated", "closing", "closed", "closeFailed"}
          /\ htenant[connections[i].value] = connections[i].key

\* two tenants are cached, one of them being closed by a closeAll run, after a
\* call for an unregistered id was rejected
C25_Witness ==
    /\ MapKeys(connections) = clients
    /\ DOMAIN models = clients
    /\ closePc = "closing"
    /\ \E p \in Procs : pc[p] = "rejected" /\ err[p] = "UnknownClient"

====
